---- MODULE Spec2Model ----
(***************************************************************************)
(* Insights pipeline of the ML service (ml-service/insights_generator.py   *)
(* and ml-service/main.py): defect acquisition, metric computation, text   *)
(* clustering, report assembly and best-effort persistence.                *)
(*                                                                         *)
(* Conventions                                                             *)
(*   - a dict key that is absent (dict.get returns None) is Absent for a   *)
(*     string field and NoTime for a timestamp field;                      *)
(*   - timestamps are whole hours since an epoch; datetime.fromisoformat   *)
(*     fails on an absent timestamp;                                       *)
(*   - a Python call either returns or raises: Ret(v) / Raise(e);          *)
(*   - a float that is a quotient is kept exact as [num, den].             *)
(***************************************************************************)
EXTENDS Integers, Sequences, FiniteSets, TLC

VARIABLES
    \* ---- the service: one entry per invocation (main.py) ----
    pc,            \* where the invocation's coroutine is suspended
    kind,          \* which entry point started it
    defects,       \* generate's local `defects`
    audit_events,  \* _fetch_audit_events' local `all_events`
    cursor,        \* position of the `for defect_id in defect_ids` loop
    insights,      \* the endpoint's local `insights`
    response,      \* what the entry point gave its caller
    trace,         \* history: the requests the invocation sent to the backend
    \* ---- one call of one method, for the method-level specifications ----
    in_defects,    \* argument `defects`
    in_events,     \* argument `audit_events`
    in_ids,        \* argument `defect_ids`
    in_n,          \* argument `n_clusters`
    out,           \* the call's outcome
    replies        \* history: the backend's replies to the per-defect fetches

vars == << pc, kind, defects, audit_events, cursor, insights, response, trace,
           in_defects, in_events, in_ids, in_n, out, replies >>

service_vars == << pc, kind, defects, audit_events, cursor, insights, response, trace >>
call_vars == << in_defects, in_events, in_ids, in_n, out, replies >>

(***************************************************************************)
(* Bounds of the model.                                                    *)
(***************************************************************************)
MaxFetched == 1
MaxDefects == 2
MaxEvents == 2
MaxAuditEvents == 2
MaxIds == 2
MaxDocs == 3
MaxRequested == 3

(***************************************************************************)
(* Python values.                                                          *)
(***************************************************************************)
Absent == "<absent>"
NoTime == -1
Pending == [state |-> "pending"]
Ret(v) == [state |-> "returned", value |-> v]
Raise(e) == [state |-> "raised", exc |-> e]
Returned(r) == r.state = "returned"
Raised(r) == r.state = "raised"

SeqUpTo(S, n) == UNION {[1..k -> S] : k \in 0..n}
Range(s) == {s[k] : k \in 1..Len(s)}

RECURSIVE SumSeq(_)
SumSeq(s) == IF s = <<>> THEN 0 ELSE Head(s) + SumSeq(Tail(s))

(***************************************************************************)
(* json.loads on the newValue payloads the backend can send.               *)
(***************************************************************************)
JsonReopened == "{\"status\": \"REOPENED\"}"
JsonResolved == "{\"status\": \"RESOLVED\"}"
JsonClosed == "{\"status\": \"CLOSED\"}"
JsonNoStatus == "{}"
JsonList == "[]"
JsonGarbage == "REOPENED"

json_loads(s) ==
    CASE s = JsonReopened -> Ret([type |-> "dict", status |-> "REOPENED"])
      [] s = JsonResolved -> Ret([type |-> "dict", status |-> "RESOLVED"])
      [] s = JsonClosed -> Ret([type |-> "dict", status |-> "CLOSED"])
      [] s = JsonNoStatus -> Ret([type |-> "dict", status |-> Absent])
      [] s = JsonList -> Ret([type |-> "list", status |-> Absent])
      [] OTHER -> Raise("JSONDecodeError")

\* The body of the try block of lines 77-83 / 106-110:
\* json.loads(new_value).get("status"), reached only for a truthy new_value.
new_status(event) ==
    IF event.newValue = Absent \/ event.newValue = ""
    THEN Ret(Absent)
    ELSE LET parsed == json_loads(event.newValue) IN
         IF Raised(parsed) THEN parsed
         ELSE IF parsed.value.type # "dict" THEN Raise("AttributeError")
         ELSE Ret(parsed.value.status)

(***************************************************************************)
(* _calculate_reopen_rate                                                  *)
(***************************************************************************)
\* A slip: only the current status is looked at, the event history is not.
reopen_event_step_ignored(reopened_defects, event) == reopened_defects

\* One iteration of `for event in audit_events` (lines 75-85).
reopen_event_step(reopened_defects, event) ==
    IF event.type = "STATUS_CHANGE"
    THEN LET st == new_status(event) IN
         IF Returned(st) /\ st.value = "REOPENED"
         THEN reopened_defects \cup {event.defectId}
         ELSE reopened_defects
    ELSE reopened_defects

RECURSIVE reopen_event_loop(_, _)
reopen_event_loop(reopened_defects, events) ==
    IF events = <<>> THEN reopened_defects
    ELSE reopen_event_loop(reopen_event_step(reopened_defects, Head(events)), Tail(events))

\* `for defect in defects` (lines 88-90).
reopen_status_loop(reopened_defects, ds) ==
    reopened_defects \cup {ds[k].id : k \in {j \in 1..Len(ds) : ds[j].status = "REOPENED"}}

\* The set `reopened_defects` at line 92.
reopened_set(ds, events) ==
    reopen_status_loop(reopen_event_loop({}, events), ds)

calculate_reopen_rate(ds, events) ==
    IF ds = <<>> THEN [num |-> 0, den |-> 1]
    ELSE [num |-> Cardinality(reopened_set(ds, events)) * 100, den |-> Len(ds)]

(***************************************************************************)
(* _calculate_mean_time_to_fix                                             *)
(***************************************************************************)
\* datetime.fromisoformat(x.replace("Z", "+00:00")) of lines 100, 112, 121:
\* None has no .replace, so an absent timestamp raises.
parse_iso(ts) == IF ts = NoTime THEN Raise("AttributeError") ELSE Ret(ts)

\* `for event in audit_events` of lines 104-117: the timestamp of the first
\* event that gets through the try block to the break, NoTime (None) if none.
RECURSIVE find_resolved_at(_, _)
find_resolved_at(defect_id, events) ==
    IF events = <<>> THEN NoTime
    ELSE LET event == Head(events) IN
         IF event.defectId = defect_id /\ event.type = "STATUS_CHANGE"
         THEN LET st == new_status(event) IN
              IF Returned(st) /\ st.value \in {"RESOLVED", "CLOSED"}
              THEN LET at == parse_iso(event.createdAt) IN
                   IF Returned(at) THEN at.value
                   ELSE find_resolved_at(defect_id, Tail(events))
              ELSE find_resolved_at(defect_id, Tail(events))
         ELSE find_resolved_at(defect_id, Tail(events))

\* Lines 119-123: the fall back to updatedAt.
resolved_at_of(defect, events) ==
    LET found == find_resolved_at(defect.id, events) IN
    IF found = NoTime /\ defect.status \in {"RESOLVED", "CLOSED"}
    THEN parse_iso(defect.updatedAt)
    ELSE Ret(found)

\* `for defect in defects` of lines 98-128, fix_times being the list so far.
RECURSIVE fix_times_loop(_, _, _)
fix_times_loop(ds, events, fix_times) ==
    IF ds = <<>> THEN Ret(fix_times)
    ELSE LET defect == Head(ds)
             created_at == parse_iso(defect.createdAt) IN
         IF Raised(created_at) THEN created_at
         ELSE LET resolved_at == resolved_at_of(defect, events) IN
              IF Raised(resolved_at) THEN resolved_at
              ELSE LET time_diff == resolved_at.value - created_at.value IN
                   fix_times_loop(Tail(ds), events,
                       IF resolved_at.value # NoTime /\ time_diff > 0
                       THEN Append(fix_times, time_diff)
                       ELSE fix_times)

\* np.mean(fix_times) if fix_times else 0.0
mean_of(fix_times) ==
    IF fix_times = <<>> THEN [num |-> 0, den |-> 1]
    ELSE [num |-> SumSeq(fix_times), den |-> Len(fix_times)]

calculate_mean_time_to_fix(ds, events) ==
    LET fix_times == fix_times_loop(ds, events, <<>>) IN
    IF Raised(fix_times) THEN fix_times ELSE Ret(mean_of(fix_times.value))

(***************************************************************************)
(* _calculate_distributions                                                *)
(***************************************************************************)
EmptyDict == [k \in {} |-> 0]

\* Series.value_counts().to_dict(): rows holding NaN/None are dropped.
value_counts(column) ==
    [k \in Range(column) \ {Absent} |->
        Cardinality({j \in 1..Len(column) : column[j] = k})]

\* lambda x: x.get("name") if isinstance(x, dict) else str(x); a row without
\* the key holds NaN, and str(nan) is "nan".
project_name(project) ==
    CASE project.type = "dict" -> project.name
      [] project.type = "str" -> project.name
      [] OTHER -> "nan"

calculate_distributions(ds) ==
    IF ds = <<>>
    THEN [status |-> EmptyDict, priority |-> EmptyDict, project |-> EmptyDict]
    ELSE [status |-> value_counts([j \in 1..Len(ds) |-> ds[j].status]),
          priority |-> value_counts([j \in 1..Len(ds) |-> ds[j].priority]),
          project |->
              IF \A j \in 1..Len(ds) : ds[j].project.type = "absent"
              THEN EmptyDict
              ELSE value_counts([j \in 1..Len(ds) |-> project_name(ds[j].project)])]

(***************************************************************************)
(* _cluster_descriptions                                                   *)
(***************************************************************************)
DefaultNClusters == 5

\* What TfidfVectorizer's analyzer keeps of a text: words of two or more
\* characters that are no English stop word.
terms_of(text) ==
    CASE text = "" -> {}
      [] text = "the" -> {}
      [] OTHER -> {text}

\* f"{defect.get('title', '')} {defect.get('description', '')}" as the pair of
\* its two parts; d.strip() is empty when both parts are.
is_blank(defect) == defect.title = "" /\ defect.description = ""
doc_terms(defect) == terms_of(defect.title) \cup terms_of(defect.description)

document_frequency(ds, term) ==
    Cardinality({j \in 1..Len(ds) : term \in doc_terms(ds[j])})

\* TfidfVectorizer(min_df=m).fit_transform: ValueError when no term is left.
\* The matrix is given by each row's retained terms; it has one row per document.
\* max_features only drops terms of a vocabulary larger than the cap, and a
\* bigram needs two retained words in one text: neither occurs with the
\* texts of terms_of.
fit_transform(ds, min_df) ==
    LET all_terms == UNION {doc_terms(ds[j]) : j \in 1..Len(ds)}
        vocabulary == {t \in all_terms : document_frequency(ds, t) >= min_df} IN
    IF vocabulary = {} THEN Raise("ValueError")
    ELSE Ret([vocabulary |-> vocabulary,
              rows |-> [j \in 1..Len(ds) |-> doc_terms(ds[j]) \cap vocabulary]])

\* Lines 180-192: the strict configuration, then the relaxed one.
vectorize(ds) ==
    LET strict == fit_transform(ds, 2) IN
    IF Returned(strict) THEN strict ELSE fit_transform(ds, 1)

Min3(a, b, c) ==
    LET ab == IF a < b THEN a ELSE b IN IF ab < c THEN ab ELSE c

EmptyClustering ==
    [clusters |-> <<>>, silhouette_score |-> [num |-> 0, den |-> 1], n_clusters |-> 0]

\* Whether the call gets as far as KMeans, and with how many clusters.
kmeans_reached(ds, n_clusters) ==
    /\ ds # <<>>
    /\ Len(ds) >= n_clusters
    /\ ~ \A j \in 1..Len(ds) : is_blank(ds[j])
    /\ Returned(vectorize(ds))
    /\ Min3(n_clusters, Len(ds), Len(vectorize(ds).value.rows)) >= 2

\* KMeans.fit_predict: one label in 0..k-1 per row, equal rows labelled alike.
\* Which labelling comes out is the numerical algorithm's choice.
kmeans_labelings(ds, n_clusters) ==
    IF ~ kmeans_reached(ds, n_clusters) THEN {<<>>}
    ELSE LET rows == vectorize(ds).value.rows
             k == Min3(n_clusters, Len(ds), Len(rows)) IN
         {l \in [1..Len(ds) -> 0..(k - 1)] :
             \A a, b \in 1..Len(ds) : rows[a] = rows[b] => l[a] = l[b]}

\* Line 208: silhouette_score raises ValueError unless
\* 2 <= number of labels <= n_samples - 1.
silhouette(labels) ==
    LET n_labels == Cardinality(Range(labels)) IN
    IF n_labels > 1
    THEN IF n_labels < Len(labels)
         THEN Ret([computed |-> "silhouette_score"])
         ELSE Raise("ValueError")
    ELSE Ret([num |-> 0, den |-> 1])

\* [s[j] for j in range(len(s)) if mask[j]]
Masked(s, mask) ==
    LET F[k \in 0..Len(s)] ==
            IF k = 0 THEN <<>>
            ELSE IF mask[k] THEN Append(F[k - 1], s[k]) ELSE F[k - 1]
    IN F[Len(s)]

\* Lines 213-229: one entry per cluster index.  top_terms holds the (at most
\* 10) terms of the vocabulary; their order by centroid weight is left out.
build_clusters(ds, labels, vocabulary, k) ==
    [c \in 1..k |->
        [cluster_id |-> c - 1,
         size |-> Cardinality({j \in 1..Len(ds) : labels[j] = c - 1}),
         top_terms |-> vocabulary,
         defect_ids |-> Masked([j \in 1..Len(ds) |-> ds[j].id],
                               [j \in 1..Len(ds) |-> labels[j] = c - 1])]]

cluster_descriptions(ds, n_clusters, labels) ==
    IF ds = <<>> \/ Len(ds) < n_clusters THEN Ret(EmptyClustering)
    ELSE IF \A j \in 1..Len(ds) : is_blank(ds[j]) THEN Ret(EmptyClustering)
    ELSE LET tfidf == vectorize(ds) IN
         IF Raised(tfidf) THEN tfidf
         ELSE LET actual_n_clusters ==
                      Min3(n_clusters, Len(ds), Len(tfidf.value.rows)) IN
              IF actual_n_clusters < 2 THEN Ret(EmptyClustering)
              ELSE LET score == silhouette(labels) IN
                   IF Raised(score) THEN score
                   ELSE Ret([clusters |-> build_clusters(ds, labels,
                                 tfidf.value.vocabulary, actual_n_clusters),
                             silhouette_score |-> score.value,
                             n_clusters |-> actual_n_clusters])

(***************************************************************************)
(* The records the backend sends.                                          *)
(***************************************************************************)
Defect(id, status, priority, project, title, description, createdAt, updatedAt) ==
    [id |-> id, status |-> status, priority |-> priority, project |-> project,
     title |-> title, description |-> description,
     createdAt |-> createdAt, updatedAt |-> updatedAt]

Event(defectId, type, newValue, createdAt) ==
    [defectId |-> defectId, type |-> type, newValue |-> newValue,
     createdAt |-> createdAt]

ProjectStr == [type |-> "str", name |-> "p1"]
ProjectDict == [type |-> "dict", name |-> "Core"]
ProjectAbsent == [type |-> "absent", name |-> Absent]

Ids == {"d1", "d2"}

\* Inputs of _calculate_reopen_rate: it reads id and status of a defect, and
\* defectId, type and newValue of an event ("dX" is no defect's id).
ReopenDefects ==
    {Defect(id, st, "HIGH", ProjectStr, "db", "", 2, 3) :
        id \in Ids, st \in {"OPEN", "REOPENED", "RESOLVED"}}
ReopenEvents ==
    {Event(id, tv[1], tv[2], 4) :
        id \in {"d1", "dX"},
        tv \in {<<"STATUS_CHANGE", JsonReopened>>, <<"STATUS_CHANGE", JsonResolved>>,
                <<"STATUS_CHANGE", JsonGarbage>>, <<"COMMENT", JsonReopened>>}}

\* Inputs of _calculate_mean_time_to_fix: it reads id, status, createdAt and
\* updatedAt of a defect, and all four fields of an event.
MttfDefects ==
    {Defect(id, st, "HIGH", ProjectStr, "db", "", c, u) :
        id \in Ids, st \in {"OPEN", "CLOSED"}, c \in {NoTime, 2}, u \in {NoTime, 1, 3}}
MttfEvents ==
    {Event(id, tvc[1], tvc[2], tvc[3]) :
        id \in Ids,
        tvc \in {<<"STATUS_CHANGE", JsonResolved, 1>>, <<"STATUS_CHANGE", JsonResolved, 5>>,
                 <<"STATUS_CHANGE", JsonClosed, NoTime>>, <<"STATUS_CHANGE", JsonList, 4>>,
                 <<"STATUS_CHANGE", JsonReopened, 4>>, <<"COMMENT", JsonResolved, 4>>}}

\* Inputs of _calculate_distributions: it reads status, priority and project.
DistDefects ==
    {Defect("d1", st, pr, pj, "db", "", 2, 3) :
        st \in {"OPEN", "RESOLVED", Absent}, pr \in {"HIGH", "LOW", Absent},
        pj \in {ProjectStr, ProjectDict, ProjectAbsent}}

\* Inputs of _cluster_descriptions: it reads id, title and description.
ClusterDefects ==
    {Defect(id, "OPEN", "HIGH", ProjectStr, t, d, 2, 3) :
        id \in Ids, t \in {"", "db", "ui"}, d \in {"", "the"}}

(***************************************************************************)
(* One call of one method: the arguments are drawn at Init, the action is  *)
(* the call.  The service's variables rest.                                *)
(***************************************************************************)
Invocations == {"i1", "i2"}
NoReport == [state |-> "none"]
NoResponse == [status |-> 0, body |-> [state |-> "none"]]
NoTrace == [list |-> "none", audit |-> <<>>, posts |-> 0, store |-> "none"]

ServiceIdle ==
    /\ pc = [i \in Invocations |-> "idle"]
    /\ kind = [i \in Invocations |-> "none"]
    /\ defects = [i \in Invocations |-> <<>>]
    /\ audit_events = [i \in Invocations |-> <<>>]
    /\ cursor = [i \in Invocations |-> 0]
    /\ insights = [i \in Invocations |-> NoReport]
    /\ response = [i \in Invocations |-> NoResponse]
    /\ trace = [i \in Invocations |-> NoTrace]

NoCall ==
    /\ in_defects = <<>>
    /\ in_events = <<>>
    /\ in_ids = <<>>
    /\ in_n = 0
    /\ out = Pending
    /\ replies = <<>>

Return(value) ==
    /\ out = Pending
    /\ out' = value
    /\ UNCHANGED << in_defects, in_events, in_ids, in_n, replies >>
    /\ UNCHANGED service_vars

\* ---- _calculate_reopen_rate ----
InitReopen ==
    /\ ServiceIdle
    /\ in_defects \in SeqUpTo(ReopenDefects, MaxDefects)
    /\ in_events \in SeqUpTo(ReopenEvents, MaxEvents)
    /\ in_ids = <<>> /\ in_n = 0 /\ out = Pending /\ replies = <<>>

CallReopenRate == Return(Ret(calculate_reopen_rate(in_defects, in_events)))

SpecReopen == InitReopen /\ [][CallReopenRate]_vars

\* ---- _calculate_mean_time_to_fix ----
InitMttf ==
    /\ ServiceIdle
    /\ in_defects \in SeqUpTo(MttfDefects, MaxDefects)
    /\ in_events \in SeqUpTo(MttfEvents, MaxEvents)
    /\ in_ids = <<>> /\ in_n = 0 /\ out = Pending /\ replies = <<>>

CallMeanTimeToFix == Return(calculate_mean_time_to_fix(in_defects, in_events))

SpecMttf == InitMttf /\ [][CallMeanTimeToFix]_vars

\* ---- _calculate_distributions ----
InitDist ==
    /\ ServiceIdle
    /\ in_defects \in SeqUpTo(DistDefects, MaxDefects)
    /\ in_events = <<>> /\ in_ids = <<>> /\ in_n = 0 /\ out = Pending /\ replies = <<>>

CallDistributions == Return(Ret(calculate_distributions(in_defects)))

SpecDist == InitDist /\ [][CallDistributions]_vars

\* ---- _cluster_descriptions ----
InitCluster ==
    /\ ServiceIdle
    /\ in_defects \in SeqUpTo(ClusterDefects, MaxDocs)
    /\ in_n \in 0..MaxRequested
    /\ in_events = <<>> /\ in_ids = <<>> /\ out = Pending /\ replies = <<>>

CallClusterDescriptions ==
    \E labels \in kmeans_labelings(in_defects, in_n) :
        Return(cluster_descriptions(in_defects, in_n, labels))

SpecCluster == InitCluster /\ [][CallClusterDescriptions]_vars

(***************************************************************************)
(* _fetch_audit_events                                                     *)
(***************************************************************************)
\* An element of a record's auditEvents list: a JSON object, or anything else.
NonDict == [nondict |-> "null"]
IsDict(x) == "type" \in DOMAIN x
RawEvents == {Event(Absent, "STATUS_CHANGE", JsonReopened, 4), NonDict}

\* The backend's reply to GET /defects/{id}: "error" is anything that makes
\* lines 49-54 raise (no connection, timeout, error status, a body that is no
\* JSON); otherwise the record, with or without the auditEvents key.
AuditReplies ==
    {[kind |-> "error", auditEvents |-> <<>>], [kind |-> "no_key", auditEvents |-> <<>>]}
    \cup {[kind |-> "record", auditEvents |-> evs] :
             evs \in SeqUpTo(RawEvents, MaxAuditEvents)}

\* Lines 56-58: event["defectId"] = defect_id; all_events.append(event).  An
\* element that is no dict raises TypeError on the assignment, which leaves the
\* loop for line 59 with what was appended before it.
RECURSIVE tag_events(_, _, _)
tag_events(all_events, defect_id, raw) ==
    IF raw = <<>> THEN all_events
    ELSE IF IsDict(Head(raw))
         THEN tag_events(Append(all_events, [Head(raw) EXCEPT !.defectId = defect_id]),
                         defect_id, Tail(raw))
         ELSE all_events

\* The body of `for defect_id in defect_ids` (lines 48-60) on one reply.
process_reply(all_events, defect_id, reply) ==
    IF reply.kind = "record"
    THEN tag_events(all_events, defect_id, reply.auditEvents)
    ELSE all_events

InitAudit ==
    /\ ServiceIdle
    /\ in_ids \in SeqUpTo(Ids, MaxIds)
    /\ in_defects = <<>> /\ in_events = <<>> /\ in_n = 0
    /\ out = Pending /\ replies = <<>>

\* The call up to its first GET (or its return, for an empty list).
AuditCall ==
    /\ out = Pending
    /\ out' = IF in_ids = <<>> THEN Ret(<<>>)
              ELSE [state |-> "awaiting", all_events |-> <<>>, position |-> 1]
    /\ UNCHANGED << in_defects, in_events, in_ids, in_n, replies >>
    /\ UNCHANGED service_vars

\* The reply to the GET in flight, up to the next GET or the return.
AuditCallReply ==
    /\ out.state = "awaiting"
    /\ \E reply \in AuditReplies :
        LET all_events == process_reply(out.all_events, in_ids[out.position], reply) IN
        /\ replies' = Append(replies, reply)
        /\ out' = IF out.position = Len(in_ids) THEN Ret(all_events)
                  ELSE [state |-> "awaiting", all_events |-> all_events,
                        position |-> out.position + 1]
    /\ UNCHANGED << in_defects, in_events, in_ids, in_n >>
    /\ UNCHANGED service_vars

SpecAudit == InitAudit /\ [][AuditCall \/ AuditCallReply]_vars

(***************************************************************************)
(* generate, from the list reply on (lines 258-297)                        *)
(***************************************************************************)
ReportFields ==
    {"scope", "userId", "teamId", "reopen_rate", "mean_time_to_fix",
     "distributions", "clustering", "generated_at"}

\* Lines 258-276: the report for an empty defect list.
empty_report(req) ==
    [scope |-> req.scope, userId |-> req.userId, teamId |-> req.teamId,
     reopen_rate |-> [num |-> 0, den |-> 1],
     mean_time_to_fix |-> [num |-> 0, den |-> 1],
     distributions |-> [status |-> EmptyDict, priority |-> EmptyDict,
                        project |-> EmptyDict],
     clustering |-> EmptyClustering,
     generated_at |-> "utcnow"]

\* Lines 282-297: the four computations in order, then the report; the first
\* one that raises ends generate.
compute_report(req, ds, events, labels) ==
    LET reopen_rate == calculate_reopen_rate(ds, events)
        mean_time_to_fix == calculate_mean_time_to_fix(ds, events)
        distributions == calculate_distributions(ds)
        clustering == cluster_descriptions(ds, DefaultNClusters, labels) IN
    IF Raised(mean_time_to_fix) THEN mean_time_to_fix
    ELSE IF Raised(clustering) THEN clustering
    ELSE Ret([scope |-> req.scope, userId |-> req.userId, teamId |-> req.teamId,
              reopen_rate |-> reopen_rate,
              mean_time_to_fix |-> mean_time_to_fix.value,
              distributions |-> distributions,
              clustering |-> clustering.value,
              generated_at |-> "utcnow"])

(***************************************************************************)
(* The entry points of main.py.  An invocation runs from one network       *)
(* suspension point to the next in one step.                               *)
(***************************************************************************)
EntryPoints ==
    [i1 |-> {"generate_insights"},
     i2 |-> {"generate_nightly_insights", "run_nightly_insights"}]

\* The arguments generate is called with (lines 55-61, 79, 98).
request_of(entry) ==
    IF entry = "generate_insights"
    THEN [scope |-> "user", userId |-> "u1", teamId |-> Absent]
    ELSE [scope |-> "global", userId |-> Absent, teamId |-> Absent]

\* What the entry point does with an exception (lines 67-69, 88-90, 101-102).
on_exception(entry, exc) ==
    IF entry = "run_nightly_insights"
    THEN [status |-> 0, body |-> [logged |-> exc]]
    ELSE [status |-> 500, body |-> [detail |-> exc]]

\* What it gives back after store_insights (lines 66, 87, 100).
on_success(entry, report) ==
    CASE entry = "generate_insights" -> [status |-> 200, body |-> report]
      [] entry = "generate_nightly_insights" ->
            [status |-> 200, body |-> [status |-> "success",
                                        message |-> "Insights generated for all scopes"]]
      [] OTHER -> [status |-> 0, body |-> [logged |-> "completed"]]

\* The defect lists GET /defects can return.
BackendDefects ==
    {Defect("d1", st, "HIGH", ProjectStr, "db", "", c, 3) :
        st \in {"OPEN", "RESOLVED"}, c \in {NoTime, 2}}

Init ==
    /\ ServiceIdle
    /\ NoCall

\* The entry point is called: generate sends GET /defects (line 27).
Start(i) ==
    /\ pc[i] = "idle"
    /\ \E entry \in EntryPoints[i] : kind' = [kind EXCEPT ![i] = entry]
    /\ pc' = [pc EXCEPT ![i] = "list"]
    /\ trace' = [trace EXCEPT ![i].list = "sent"]
    /\ UNCHANGED << defects, audit_events, cursor, insights, response >>
    /\ UNCHANGED call_vars

\* A slip: the list fetch swallows its error as the per-defect fetch does
\* and gives an empty list back.
ListFetchFails_swallowed(i) ==
    /\ pc[i] = "list"
    /\ insights' = [insights EXCEPT ![i] = empty_report(request_of(kind[i]))]
    /\ pc' = [pc EXCEPT ![i] = "store"]
    /\ trace' = [trace EXCEPT ![i].list = "failed", ![i].posts = @ + 1]
    /\ UNCHANGED << kind, defects, audit_events, cursor, response >>
    /\ UNCHANGED call_vars

\* GET /defects fails (no connection, timeout, error status, bad body):
\* _fetch_defects logs and re-raises (lines 34-36), generate lets it through,
\* the entry point's except clause answers.
ListFetchFails(i) ==
    /\ pc[i] = "list"
    /\ pc' = [pc EXCEPT ![i] = "done"]
    /\ response' = [response EXCEPT ![i] = on_exception(kind[i], "HTTPError")]
    /\ trace' = [trace EXCEPT ![i].list = "failed"]
    /\ UNCHANGED << kind, defects, audit_events, cursor, insights >>
    /\ UNCHANGED call_vars

\* GET /defects returns a list: for an empty one generate returns the empty
\* report and store_insights sends its POST; otherwise _fetch_audit_events
\* sends the first GET /defects/{id}.
ListFetchReturns(i) ==
    /\ pc[i] = "list"
    /\ \E ds \in SeqUpTo(BackendDefects, MaxFetched) :
        /\ defects' = [defects EXCEPT ![i] = ds]
        /\ IF ds = <<>>
           THEN /\ insights' = [insights EXCEPT ![i] = empty_report(request_of(kind[i]))]
                /\ pc' = [pc EXCEPT ![i] = "store"]
                /\ trace' = [trace EXCEPT ![i].list = "ok", ![i].posts = @ + 1]
                /\ UNCHANGED cursor
           ELSE /\ cursor' = [cursor EXCEPT ![i] = 1]
                /\ pc' = [pc EXCEPT ![i] = "audit"]
                /\ trace' = [trace EXCEPT ![i].list = "ok",
                                          ![i].audit = Append(@, ds[1].id)]
                /\ UNCHANGED insights
    /\ UNCHANGED << kind, audit_events, response >>
    /\ UNCHANGED call_vars

\* The reply to GET /defects/{id}.  Before the last defect: the next GET.
\* After it: the metrics, the clustering and the report (lines 283-297),
\* then either the exception reaches the entry point or store_insights
\* sends its POST.
AuditReply(i) ==
    /\ pc[i] = "audit"
    /\ \E reply \in AuditReplies :
        LET ds == defects[i]
            all_events == process_reply(audit_events[i], ds[cursor[i]].id, reply) IN
        /\ audit_events' = [audit_events EXCEPT ![i] = all_events]
        /\ IF cursor[i] < Len(ds)
           THEN /\ cursor' = [cursor EXCEPT ![i] = @ + 1]
                /\ trace' = [trace EXCEPT ![i].audit = Append(@, ds[cursor[i] + 1].id)]
                /\ UNCHANGED << pc, insights, response >>
           ELSE \E labels \in kmeans_labelings(ds, DefaultNClusters) :
                LET report == compute_report(request_of(kind[i]), ds, all_events, labels) IN
                IF Raised(report)
                THEN /\ pc' = [pc EXCEPT ![i] = "done"]
                     /\ response' = [response EXCEPT ![i] = on_exception(kind[i], report.exc)]
                     /\ UNCHANGED << cursor, insights, trace >>
                ELSE /\ pc' = [pc EXCEPT ![i] = "store"]
                     /\ insights' = [insights EXCEPT ![i] = report.value]
                     /\ trace' = [trace EXCEPT ![i].posts = @ + 1]
                     /\ UNCHANGED << cursor, response >>
    /\ UNCHANGED << kind, defects >>
    /\ UNCHANGED call_vars

\* POST /ml/insights succeeds: store_insights logs, the entry point answers.
StoreAccepted(i) ==
    /\ pc[i] = "store"
    /\ pc' = [pc EXCEPT ![i] = "done"]
    /\ response' = [response EXCEPT ![i] = on_success(kind[i], insights[i])]
    /\ trace' = [trace EXCEPT ![i].store = "stored"]
    /\ UNCHANGED << kind, defects, audit_events, cursor, insights >>
    /\ UNCHANGED call_vars

\* A slip: store_insights re-raises as _fetch_defects does.
StoreFails_reraised(i) ==
    /\ pc[i] = "store"
    /\ pc' = [pc EXCEPT ![i] = "done"]
    /\ response' = [response EXCEPT ![i] = on_exception(kind[i], "HTTPError")]
    /\ trace' = [trace EXCEPT ![i].store = "failed"]
    /\ UNCHANGED << kind, defects, audit_events, cursor, insights >>
    /\ UNCHANGED call_vars

\* POST /ml/insights fails: store_insights logs and returns (lines 319-321),
\* the entry point answers as if it had succeeded.
StoreFails(i) ==
    /\ pc[i] = "store"
    /\ pc' = [pc EXCEPT ![i] = "done"]
    /\ response' = [response EXCEPT ![i] = on_success(kind[i], insights[i])]
    /\ trace' = [trace EXCEPT ![i].store = "failed"]
    /\ UNCHANGED << kind, defects, audit_events, cursor, insights >>
    /\ UNCHANGED call_vars

Step(i) ==
    \/ Start(i)
    \/ ListFetchFails(i)
    \/ ListFetchReturns(i)
    \/ AuditReply(i)
    \/ StoreAccepted(i)
    \/ StoreFails(i)

Next == \E i \in Invocations : Step(i)

Spec == Init /\ [][Next]_vars

(***************************************************************************)
(* Properties of the single methods.                                       *)
(***************************************************************************)
IdsOf(ds) == {ds[j].id : j \in 1..Len(ds)}

RECURSIVE Concat(_)
Concat(ss) == IF ss = <<>> THEN <<>> ELSE Head(ss) \o Concat(Tail(ss))

RECURSIVE DictSum(_)
DictSum(d) ==
    IF DOMAIN d = {} THEN 0
    ELSE LET k == CHOOSE x \in DOMAIN d : TRUE IN
         d[k] + DictSum([x \in DOMAIN d \ {k} |-> d[x]])

Occurrences(s, x) == Cardinality({j \in 1..Len(s) : s[j] = x})

\* ---- C3 ----
\* A reply that makes the fetch or the processing of its record fail: an
\* error reply, or a record one of whose auditEvents is no JSON object.
ReplyFails(reply) ==
    \/ reply.kind = "error"
    \/ reply.kind = "record"
       /\ \E j \in 1..Len(reply.auditEvents) : ~ IsDict(reply.auditEvents[j])

\* What C3 lets a defect contribute: nothing when its reply fails, else all of
\* its events, each tagged with the defect's id.
C3_Contribution(defect_id, reply) ==
    IF ReplyFails(reply) \/ reply.kind = "no_key" THEN <<>>
    ELSE [j \in 1..Len(reply.auditEvents) |->
             [reply.auditEvents[j] EXCEPT !.defectId = defect_id]]

\* C3: _fetch_audit_events never fails, fetches every id of the list in order,
\* and returns, in list order, all the tagged events of every defect whose
\* fetch and processing succeeded and no event at all of a defect whose fetch
\* or processing failed.
C3_FailureIsolatedPerDefect ==
    /\ out.state \in {"pending", "awaiting", "returned"}
    /\ Returned(out) =>
        /\ Len(replies) = Len(in_ids)
        /\ out.value =
               Concat([j \in 1..Len(in_ids) |-> C3_Contribution(in_ids[j], replies[j])])

C6_ReopeningEvent(event) ==
    event.type = "STATUS_CHANGE" /\ event.newValue = JsonReopened

C6_IsReopened(defect, events) ==
    \/ defect.status = "REOPENED"
    \/ \E k \in 1..Len(events) :
          events[k].defectId = defect.id /\ C6_ReopeningEvent(events[k])

C6_ReopenedIds ==
    {in_defects[j].id : j \in {i \in 1..Len(in_defects) :
                                  C6_IsReopened(in_defects[i], in_events)}}

\* C6: the ids of the list that end in reopened_defects are exactly those of
\* the defects with a STATUS_CHANGE event to REOPENED or with current status
\* REOPENED, whatever other events (unparseable ones included) surround them;
\* and when every event belongs to a defect of the list, the rate counts each
\* of these ids once.
C6_ReopenedIffEventOrStatus ==
    Returned(out) /\ in_defects # <<>> =>
        /\ reopened_set(in_defects, in_events) \cap IdsOf(in_defects) = C6_ReopenedIds
        /\ (\A k \in 1..Len(in_events) : in_events[k].defectId \in IdsOf(in_defects))
              => out.value = [num |-> 100 * Cardinality(C6_ReopenedIds),
                              den |-> Len(in_defects)]

\* A RESOLVED defect counted through its REOPENED event, next to an event with
\* an unparseable newValue and an OPEN defect without events that is not counted.
C6_Witness ==
    /\ Returned(out)
    /\ Len(in_defects) = 2
    /\ in_defects[1].id = "d1" /\ in_defects[1].status = "RESOLVED"
    /\ in_defects[2].id = "d2" /\ in_defects[2].status = "OPEN"
    /\ in_events = << Event("d1", "STATUS_CHANGE", JsonGarbage, 4),
                      Event("d1", "STATUS_CHANGE", JsonReopened, 4) >>
    /\ out.value = [num |-> 100, den |-> 2]

\* ---- C7 ----
C7_IsResolution(event, defect) ==
    /\ event.defectId = defect.id
    /\ event.type = "STATUS_CHANGE"
    /\ event.newValue \in {JsonResolved, JsonClosed}

\* The resolution time C7 gives a defect: that of the first STATUS_CHANGE event
\* to RESOLVED or CLOSED, updatedAt only when there is no such event and the
\* current status is RESOLVED or CLOSED, and none otherwise.
C7_ResolutionTime(defect, events) ==
    LET hits == {k \in 1..Len(events) : C7_IsResolution(events[k], defect)} IN
    IF hits # {}
    THEN events[CHOOSE k \in hits : \A m \in hits : k <= m].createdAt
    ELSE IF defect.status \in {"RESOLVED", "CLOSED"} THEN defect.updatedAt
    ELSE NoTime

C7_Qualifies(defect, events) ==
    /\ defect.createdAt # NoTime
    /\ C7_ResolutionTime(defect, events) # NoTime
    /\ C7_ResolutionTime(defect, events) > defect.createdAt

C7_FixTimes(ds, events) ==
    Masked([j \in 1..Len(ds) |-> C7_ResolutionTime(ds[j], events) - ds[j].createdAt],
           [j \in 1..Len(ds) |-> C7_Qualifies(ds[j], events)])

\* C7: mean_time_to_fix is the mean of the positive elapsed times, each taken
\* from the defect's first STATUS_CHANGE event to RESOLVED or CLOSED (from
\* updatedAt only when there is no such event); it is never negative, and it
\* is 0.0 when no defect qualifies.
C7_MeanTimeToFixFromFirstResolution ==
    out # Pending =>
        /\ Returned(out)
        /\ out.value.num >= 0
        /\ out.value = mean_of(C7_FixTimes(in_defects, in_events))

\* ---- C8 ----
\* C8: for a non-empty defect list the status counts sum to the number of
\* defects, and so do the priority counts.
C8_DistributionsSumToTotal ==
    Returned(out) /\ in_defects # <<>> =>
        /\ DictSum(out.value.status) = Len(in_defects)
        /\ DictSum(out.value.priority) = Len(in_defects)

\* ---- C10 ----
C10_Expected ==
    LET n == Len(in_defects) IN
    IF \/ n < in_n
       \/ \A j \in 1..n : is_blank(in_defects[j])
       \/ Min3(in_n, n, n) < 2
    THEN 0
    ELSE Min3(in_n, n, n)

\* C10: the call reports 0 clusters, no cluster and score 0.0 when there are
\* fewer defects than requested, all documents are blank or the minimum is
\* below 2; in every other case it reports min(requested, defects, documents)
\* clusters, as many list entries, each with size = length of its defect_ids,
\* and the clusters' defect_ids partition the defects.
C10_ClusterCount ==
    out # Pending =>
        /\ Returned(out)
        /\ out.value.n_clusters = C10_Expected
        /\ Len(out.value.clusters) = C10_Expected
        /\ C10_Expected = 0 => out.value = EmptyClustering
        /\ \A c \in 1..Len(out.value.clusters) :
              out.value.clusters[c].size = Len(out.value.clusters[c].defect_ids)
        /\ C10_Expected > 0 =>
              \A id \in IdsOf(in_defects) :
                  Occurrences([j \in 1..Len(in_defects) |-> in_defects[j].id], id)
                  = SumSeq([c \in 1..Len(out.value.clusters) |->
                               Occurrences(out.value.clusters[c].defect_ids, id)])

(***************************************************************************)
(* Properties of the service.                                              *)
(***************************************************************************)
\* The reports generate can return for what invocation i fetched.
ReportsOf(i) ==
    IF defects[i] = <<>> THEN {empty_report(request_of(kind[i]))}
    ELSE LET results == {compute_report(request_of(kind[i]), defects[i],
                                        audit_events[i], labels) :
                            labels \in kmeans_labelings(defects[i], DefaultNClusters)} IN
         {r.value : r \in {x \in results : Returned(x)}}

IsReport(x) == DOMAIN x = ReportFields

\* ---- C1 ----
\* C1: after a failed GET /defects the invocation is over: it has sent no
\* per-defect GET, built no report, sent no POST /ml/insights, and the
\* /generate-insights caller has an HTTP 500 and no report.
C1_ListFailureAborts ==
    \A i \in Invocations :
        trace[i].list = "failed" =>
            /\ pc[i] = "done"
            /\ trace[i].audit = <<>>
            /\ trace[i].posts = 0
            /\ trace[i].store = "none"
            /\ insights[i] = NoReport
            /\ ~ IsReport(response[i].body)
            /\ kind[i] = "generate_insights" => response[i].status = 500

C1_Witness ==
    \E i \in Invocations :
        /\ kind[i] = "generate_insights"
        /\ trace[i].list = "failed"
        /\ response[i].status = 500

\* ---- C2 ----
\* C2: a POST /ml/insights is sent only once generate has returned a complete
\* report; when the POST fails, /generate-insights answers 200 with exactly
\* that report, which is still the one generate computed from what it fetched.
C2_StoreFailureSwallowed ==
    \A i \in Invocations :
        /\ trace[i].posts > 0 =>
              /\ IsReport(insights[i])
              /\ insights[i] \in ReportsOf(i)
        /\ kind[i] = "generate_insights" /\ trace[i].store = "failed" =>
              /\ pc[i] = "done"
              /\ response[i] = [status |-> 200, body |-> insights[i]]

C2_Witness ==
    \E i \in Invocations :
        /\ kind[i] = "generate_insights"
        /\ trace[i].store = "failed"
        /\ defects[i] # <<>>
        /\ audit_events[i] # <<>>
        /\ response[i].status = 200
        /\ response[i].body.reopen_rate = [num |-> 100, den |-> 1]

\* ---- C4 ----
\* C4: once GET /defects has succeeded, generate returns a complete report:
\* when the invocation is past generate, every field of the report is there.
C4_ReportAfterListFetch ==
    \A i \in Invocations :
        trace[i].list = "ok" /\ pc[i] \in {"store", "done"} =>
            /\ IsReport(insights[i])
            /\ DOMAIN insights[i].distributions = {"status", "priority", "project"}
            /\ DOMAIN insights[i].clustering = {"clusters", "silhouette_score", "n_clusters"}

\* ---- C9 ----
\* C9: with two invocations interleaved, each report is one that generate
\* computes from the defects and events of the same invocation; every
\* invocation whose list fetch succeeded makes exactly one storage write; and
\* an invocation that is not over can always take its next step, whatever
\* the other one is doing.
C9_InvocationsIndependent ==
    \A i \in Invocations :
        /\ insights[i] # NoReport => insights[i] \in ReportsOf(i)
        /\ trace[i].posts <= 1
        /\ pc[i] = "done" /\ trace[i].list = "ok" => trace[i].posts = 1
        /\ pc[i] # "done" => ENABLED Step(i)

====
